---------------------------- MODULE Spec2Model ----------------------------
(***************************************************************************)
(* asebytes.BytesIO: an ordered sequence of multi-field records kept in an *)
(* LMDB key-value store.  Byte strings are sequences of one-character      *)
(* strings, so that key construction (concatenation), str()/int()          *)
(* conversion, prefix stripping and the newline join/split of the field    *)
(* key list are computed the way the code computes them.                   *)
(***************************************************************************)
EXTENDS Integers, Sequences, FiniteSets, TLC

\* ------------------------------------------------------------------ bounds
\* Largest logical index a caller passes; the smallest is -1 (Python accepts
\* any int as an index).
MaxIndex == 2
\* Sort keys are allocated only while NextSortKey is below this cap.
MaxSortKey == 2
\* insert/extend grow the sequence only up to this Count.
MaxCount == 3
\* Longest list handed to extend.
MaxExtend == 2

\* ------------------------------------------------------------ byte strings
B_meta_count == <<"_","_","m","e","t","a","_","_","c","o","u","n","t">>
B_meta_next_sort_key ==
    <<"_","_","m","e","t","a","_","_","n","e","x","t","_","s","o","r","t","_","k","e","y">>
B_idx == <<"_","_","i","d","x","_","_">>
B_keys == <<"_","_","k","e","y","s","_","_">>
B_dash == <<"-">>
B_newline == <<"\n">>

DigitChars == <<"0","1","2","3","4","5","6","7","8","9">>

\* Byte value of a character (bytes compare by value in sorted()).
Ord(c) ==
    CASE c = "\n" -> 10
      [] c = "-" -> 45
      [] c \in {DigitChars[d] : d \in 1..10} -> 47 + (CHOOSE d \in 1..10 : DigitChars[d] = c)
      [] c = "_" -> 95
      [] c = "a" -> 97
      [] c = "b" -> 98
      [] c = "c" -> 99
      [] c = "x" -> 120
      [] c = "y" -> 121
      [] OTHER -> 122

\* str(n).encode() for n >= 0
RECURSIVE StrNat(_)
StrNat(n) ==
    IF n < 10 THEN <<DigitChars[n + 1]>>
    ELSE StrNat(n \div 10) \o <<DigitChars[(n % 10) + 1]>>

\* str(n).encode()
Str(n) == IF n < 0 THEN <<"-">> \o StrNat(0 - n) ELSE StrNat(n)

DigitVal(c) == (CHOOSE d \in 1..10 : DigitChars[d] = c) - 1

RECURSIVE IntNat(_)
IntNat(s) ==
    IF Len(s) = 0 THEN 0
    ELSE IntNat(SubSeq(s, 1, Len(s) - 1)) * 10 + DigitVal(s[Len(s)])

\* int(s.decode()) on the decimal strings the code stores
IntOf(s) == IF Len(s) > 0 /\ s[1] = "-" THEN 0 - IntNat(Tail(s)) ELSE IntNat(s)

\* bytes < bytes (lexicographic by byte value)
RECURSIVE BytesLess(_, _)
BytesLess(s, t) ==
    IF Len(t) = 0 THEN FALSE
    ELSE IF Len(s) = 0 THEN TRUE
    ELSE IF s[1] = t[1] THEN BytesLess(Tail(s), Tail(t))
    ELSE Ord(s[1]) < Ord(t[1])

\* sorted(S) for a set of byte strings
RECURSIVE Sorted(_)
Sorted(S) ==
    IF S = {} THEN <<>>
    ELSE LET m == CHOOSE x \in S : \A y \in S \ {x} : BytesLess(x, y)
         IN <<m>> \o Sorted(S \ {m})

\* b"\n".join(names)
RECURSIVE JoinLines(_)
JoinLines(names) ==
    IF Len(names) = 0 THEN <<>>
    ELSE IF Len(names) = 1 THEN names[1]
    ELSE names[1] \o B_newline \o JoinLines(Tail(names))

\* s.split(b"\n"): always at least one piece
RECURSIVE SplitLines(_)
SplitLines(s) ==
    IF \A k \in 1..Len(s) : s[k] # "\n" THEN <<s>>
    ELSE LET k == CHOOSE j \in 1..Len(s) : s[j] = "\n" /\ \A h \in 1..(j - 1) : s[h] # "\n"
         IN <<SubSeq(s, 1, k - 1)>> \o SplitLines(SubSeq(s, k + 1, Len(s)))

\* s.startswith(p)
StartsWith(s, p) == Len(s) >= Len(p) /\ SubSeq(s, 1, Len(p)) = p

\* s[n:]
DropFirst(s, n) == SubSeq(s, n + 1, Len(s))

Range(s) == {s[k] : k \in 1..Len(s)}

\* ---------------------------------------------------------------- records
\* A dict[bytes, bytes] argument is a sequence of <<name, value>> pairs in
\* insertion order, names distinct.  A dict returned to the caller is compared
\* with == in Python, which ignores order: it is a function name -> value.
NameA == <<"a">>
NameB == <<"b">>
NameEmpty == <<>>
ValX == <<"x">>
ValY == <<"y">>

FieldNames == {NameA, NameB, NameEmpty}

Records ==
    { <<>>,
      << <<NameA, ValX>> >>,
      << <<NameB, ValY>>, <<NameA, ValY>> >>,
      << <<NameEmpty, ValX>> >> }

\* list(data.keys())
Keys(data) == [k \in 1..Len(data) |-> data[k][1]]
\* set(data.keys())
Names(data) == {data[k][1] : k \in 1..Len(data)}
\* the dict as a value: name -> value
AsDict(data) ==
    [n \in Names(data) |-> data[CHOOSE k \in 1..Len(data) : data[k][1] = n][2]]

None == <<>>
Some(v) == <<v>>

\* --------------------------------------------------------- LMDB transaction
\* A transaction's view of the store is a function key -> value.  A write is a
\* put or a delete of one key; an operation's effect is its list of writes in
\* program order, applied to the view it started from.
TxnGet(txn, key) == IF key \in DOMAIN txn THEN Some(txn[key]) ELSE None

PutW(key, value) == [t |-> "put", k |-> key, v |-> value]
DeleteW(key) == [t |-> "delete", k |-> key, v |-> <<>>]

ApplyWrite(txn, w) ==
    IF w.t = "put"
    THEN [x \in (DOMAIN txn) \cup {w.k} |-> IF x = w.k THEN w.v ELSE txn[x]]
    ELSE [x \in (DOMAIN txn) \ {w.k} |-> txn[x]]

RECURSIVE Apply(_, _)
Apply(txn, ws) ==
    IF Len(ws) = 0 THEN txn ELSE Apply(ApplyWrite(txn, Head(ws)), Tail(ws))

\* cursor.getmulti(keys): the <<key, value>> pairs of the keys that exist
RECURSIVE GetMulti(_, _)
GetMulti(txn, keys) ==
    IF Len(keys) = 0 THEN <<>>
    ELSE (IF Head(keys) \in DOMAIN txn
          THEN << <<Head(keys), txn[Head(keys)]>> >>
          ELSE <<>>) \o GetMulti(txn, Tail(keys))

\* --------------------------------------------------------- metadata helpers
_get_count(prefix, txn) ==
    LET count_bytes == TxnGet(txn, prefix \o B_meta_count)
    IN IF count_bytes = None THEN 0 ELSE IntOf(count_bytes[1])

_set_count(prefix, count) == <<PutW(prefix \o B_meta_count, Str(count))>>

_get_next_sort_key(prefix, txn) ==
    LET value == TxnGet(txn, prefix \o B_meta_next_sort_key)
    IN IF value = None THEN 0 ELSE IntOf(value[1])

\* (variant: the counter is written back as it was read)
_set_next_sort_key_Stuck(prefix, value) ==
    <<PutW(prefix \o B_meta_next_sort_key, Str(value - 1))>>

_set_next_sort_key(prefix, value) ==
    <<PutW(prefix \o B_meta_next_sort_key, Str(value))>>

\* Some(sort_key) or None
_get_mapping(prefix, txn, logical_index) ==
    LET sort_key_bytes == TxnGet(txn, prefix \o B_idx \o Str(logical_index))
    IN IF sort_key_bytes = None THEN None ELSE Some(IntOf(sort_key_bytes[1]))

_set_mapping(prefix, logical_index, sort_key) ==
    <<PutW(prefix \o B_idx \o Str(logical_index), Str(sort_key))>>

_delete_mapping(prefix, logical_index) ==
    <<DeleteW(prefix \o B_idx \o Str(logical_index))>>

\* (variant: the key handed out is the current count)
_allocate_sort_key_FromCount(prefix, txn) ==
    LET next_key == _get_count(prefix, txn)
    IN [key |-> next_key, writes |-> _set_next_sort_key(prefix, next_key + 1)]

\* the key handed out, and the write that advances the counter
_allocate_sort_key(prefix, txn) ==
    LET next_key == _get_next_sort_key(prefix, txn)
    IN [key |-> next_key, writes |-> _set_next_sort_key(prefix, next_key + 1)]

\* Some(list of field keys) or None
_get_field_keys_metadata(prefix, txn, sort_key) ==
    LET metadata_bytes == TxnGet(txn, prefix \o B_keys \o Str(sort_key))
    IN IF metadata_bytes = None THEN None
       ELSE IF Len(metadata_bytes[1]) > 0 THEN Some(SplitLines(metadata_bytes[1]))
       ELSE Some(<<>>)

_set_field_keys_metadata(prefix, sort_key, field_keys) ==
    <<PutW(prefix \o B_keys \o Str(sort_key), JoinLines(field_keys))>>

_delete_field_keys_metadata(prefix, sort_key) ==
    <<DeleteW(prefix \o B_keys \o Str(sort_key))>>

\* ------------------------------------------------------------- responses
\* What a call gives back: a value, or the exception it raises.
Ok(val) == [status |-> "ok", val |-> val]
IndexNotFound(index) ==
    [status |-> "KeyError", what |-> "Index not found", index |-> index]
MetadataNotFound(index, sort_key) ==
    [status |-> "KeyError", what |-> "Metadata not found",
     index |-> index, sort_key |-> sort_key]
InvalidKeys(index, names) ==
    [status |-> "KeyError", what |-> "Invalid keys", index |-> index, names |-> names]
OutOfRange(index, count) ==
    [status |-> "IndexError", what |-> "out of range", index |-> index, count |-> count]

\* An operation's outcome: its response and the writes it made, in order.
Done(resp, writes) == [resp |-> resp, writes |-> writes]

\* ------------------------------------------------------------------ reads
\* (variant: an index without mapping is read as a record without fields)
_get_full_keys_NoMappingCheck(prefix, txn, index) ==
    LET sort_key == _get_mapping(prefix, txn, index)
        field_keys == IF sort_key = None THEN None
                      ELSE _get_field_keys_metadata(prefix, txn, sort_key[1])
        pfx == prefix \o (IF sort_key = None THEN <<>> ELSE Str(sort_key[1])) \o B_dash
    IN [err |-> None, sort_key |-> IF sort_key = None THEN 0 ELSE sort_key[1],
        prefix |-> pfx,
        keys |-> IF field_keys = None THEN <<>>
                 ELSE [k \in 1..Len(field_keys[1]) |-> pfx \o field_keys[1][k]]]

\* (sort_key, prefix, full keys) of an index, or the KeyError raised
_get_full_keys(prefix, txn, index) ==
    LET sort_key == _get_mapping(prefix, txn, index)
    IN IF sort_key = None THEN [err |-> Some(IndexNotFound(index))]
       ELSE LET pfx == prefix \o Str(sort_key[1]) \o B_dash
                field_keys == _get_field_keys_metadata(prefix, txn, sort_key[1])
            IN IF field_keys = None
               THEN [err |-> Some(MetadataNotFound(index, sort_key[1]))]
               ELSE [err |-> None, sort_key |-> sort_key[1], prefix |-> pfx,
                     keys |-> [k \in 1..Len(field_keys[1]) |-> pfx \o field_keys[1][k]]]

\* the dict filled from getmulti's pairs: result[key[len(prefix):]] = value
ResultDict(pairs, pfx) ==
    [n \in {DropFirst(pairs[k][1], Len(pfx)) : k \in 1..Len(pairs)} |->
        pairs[CHOOSE k \in 1..Len(pairs) :
                 /\ DropFirst(pairs[k][1], Len(pfx)) = n
                 /\ \A h \in (k + 1)..Len(pairs) : DropFirst(pairs[h][1], Len(pfx)) # n][2]]

__getitem__(prefix, txn, index) ==
    LET fk == _get_full_keys(prefix, txn, index)
    IN IF fk.err # None THEN fk.err[1]
       ELSE Ok(ResultDict(GetMulti(txn, fk.keys), fk.prefix))

get_available_keys(prefix, txn, index) ==
    LET fk == _get_full_keys(prefix, txn, index)
    IN IF fk.err # None THEN fk.err[1]
       ELSE Ok([k \in 1..Len(fk.keys) |-> DropFirst(fk.keys[k], Len(fk.prefix))])

\* (variant: the keys filter is ignored and every field is returned)
get_IgnoresFilter(prefix, txn, index, keys) == __getitem__(prefix, txn, index)

\* keys is None or Some(keys_set), keys_set = set(keys)
get(prefix, txn, index, keys) ==
    LET fk == _get_full_keys(prefix, txn, index)
    IN IF fk.err # None THEN fk.err[1]
       ELSE LET keys_to_fetch ==
                    IF keys # None
                    THEN LET ks == Sorted(keys[1])
                         IN [k \in 1..Len(ks) |-> fk.prefix \o ks[k]]
                    ELSE fk.keys
                result == ResultDict(GetMulti(txn, keys_to_fetch), fk.prefix)
            IN IF keys # None /\ Cardinality(DOMAIN result) # Cardinality(keys[1])
               THEN InvalidKeys(index, Sorted(keys[1] \ DOMAIN result))
               ELSE Ok(result)

\* (variant: len() counts the mapping entries instead of reading Count)
__len___CountsMappings(prefix, txn) ==
    Ok(Cardinality({k \in DOMAIN txn : StartsWith(k, prefix \o B_idx)}))

__len__(prefix, txn) == Ok(_get_count(prefix, txn))

\* ----------------------------------------------------------------- writes
\* the putmulti items of a record under a sort key
DataItems(prefix, sort_key, data) ==
    [k \in 1..Len(data) |-> PutW(prefix \o Str(sort_key) \o B_dash \o data[k][1], data[k][2])]

DeleteAll(keys) == [k \in 1..Len(keys) |-> DeleteW(keys[k])]

\* (variant: a record for an unmapped index is appended at index Count)
__setitem___Appends(prefix, txn, index, data) ==
    LET current_count == _get_count(prefix, txn)
        found == _get_mapping(prefix, txn, index)
        is_new_index == found = None
        alloc == _allocate_sort_key(prefix, txn)
        sort_key == IF is_new_index THEN alloc.key ELSE found[1]
        fk == _get_full_keys(prefix, txn, index)
        first == IF is_new_index
                 THEN alloc.writes \o _set_mapping(prefix, current_count, sort_key)
                 ELSE IF fk.err = None THEN DeleteAll(fk.keys) ELSE <<>>
    IN Done(Ok(None),
            first
            \o DataItems(prefix, sort_key, data)
            \o _set_field_keys_metadata(prefix, sort_key, Keys(data))
            \o (IF is_new_index
                THEN _set_count(prefix, current_count + 1) ELSE <<>>))

__setitem__(prefix, txn, index, data) ==
    LET current_count == _get_count(prefix, txn)
        found == _get_mapping(prefix, txn, index)
        is_new_index == found = None
        alloc == _allocate_sort_key(prefix, txn)
        sort_key == IF is_new_index THEN alloc.key ELSE found[1]
        fk == _get_full_keys(prefix, txn, index)
        first == IF is_new_index
                 THEN alloc.writes \o _set_mapping(prefix, index, sort_key)
                 ELSE IF fk.err = None THEN DeleteAll(fk.keys) ELSE <<>>
    IN Done(Ok(None),
            first
            \o DataItems(prefix, sort_key, data)
            \o _set_field_keys_metadata(prefix, sort_key, Keys(data))
            \o (IF is_new_index /\ index >= current_count
                THEN _set_count(prefix, index + 1) ELSE <<>>))

\* (variant: an update of an index without mapping is silently skipped)
update_SkipsUnmapped(prefix, txn, index, data) ==
    IF Len(data) = 0 THEN Done(Ok(None), <<>>)
    ELSE LET sort_key == _get_mapping(prefix, txn, index)
         IN IF sort_key = None THEN Done(Ok(None), <<>>)
            ELSE LET meta == _get_field_keys_metadata(prefix, txn, sort_key[1])
                     existing_field_keys == IF meta = None THEN <<>> ELSE meta[1]
                     all_field_keys == Range(existing_field_keys) \cup Names(data)
                 IN Done(Ok(None),
                         DataItems(prefix, sort_key[1], data)
                         \o _set_field_keys_metadata(prefix, sort_key[1],
                                                     Sorted(all_field_keys)))

\* (variant: the fields are written under the index, not under the sort key)
update_KeyedByIndex(prefix, txn, index, data) ==
    IF Len(data) = 0 THEN Done(Ok(None), <<>>)
    ELSE LET sort_key == _get_mapping(prefix, txn, index)
         IN IF sort_key = None THEN Done(IndexNotFound(index), <<>>)
            ELSE LET meta == _get_field_keys_metadata(prefix, txn, index)
                     existing_field_keys == IF meta = None THEN <<>> ELSE meta[1]
                     all_field_keys == Range(existing_field_keys) \cup Names(data)
                 IN Done(Ok(None),
                         DataItems(prefix, index, data)
                         \o _set_field_keys_metadata(prefix, index,
                                                     Sorted(all_field_keys)))

update(prefix, txn, index, data) ==
    IF Len(data) = 0 THEN Done(Ok(None), <<>>)
    ELSE LET sort_key == _get_mapping(prefix, txn, index)
         IN IF sort_key = None THEN Done(IndexNotFound(index), <<>>)
            ELSE LET meta == _get_field_keys_metadata(prefix, txn, sort_key[1])
                     existing_field_keys == IF meta = None THEN <<>> ELSE meta[1]
                     all_field_keys == Range(existing_field_keys) \cup Names(data)
                 IN Done(Ok(None),
                         DataItems(prefix, sort_key[1], data)
                         \o _set_field_keys_metadata(prefix, sort_key[1],
                                                     Sorted(all_field_keys)))

\* (variant: every mapping of the sequence is collected, whatever the position)
RECURSIVE MappingsToShift_FromZero(_, _, _, _)
MappingsToShift_FromZero(prefix, txn, lo, hi) ==
    IF hi <= 0 THEN <<>>
    ELSE LET sk == _get_mapping(prefix, txn, hi - 1)
         IN MappingsToShift_FromZero(prefix, txn, lo, hi - 1)
            \o (IF sk # None THEN << <<hi - 1, sk[1]>> >> ELSE <<>>)

\* the (i, sk) pairs of the mapped indices lo..hi-1, ascending
RECURSIVE MappingsToShift(_, _, _, _)
MappingsToShift(prefix, txn, lo, hi) ==
    IF lo >= hi THEN <<>>
    ELSE LET sk == _get_mapping(prefix, txn, lo)
         IN (IF sk # None THEN << <<lo, sk[1]>> >> ELSE <<>>)
            \o MappingsToShift(prefix, txn, lo + 1, hi)

Reversed(s) == [k \in 1..Len(s) |-> s[Len(s) + 1 - k]]

RECURSIVE Concat(_)
Concat(ss) == IF Len(ss) = 0 THEN <<>> ELSE Head(ss) \o Concat(Tail(ss))

\* for old_index, sk in mappings_to_shift: self._delete_mapping(txn, old_index)
DeleteOldMappings(prefix, mappings_to_shift) ==
    Concat([k \in 1..Len(mappings_to_shift) |->
              _delete_mapping(prefix, mappings_to_shift[k][1])])

\* ShiftDown with the shifted mappings written back where they were
ShiftDown_InPlace(prefix, mappings_to_shift) ==
    Concat([k \in 1..Len(mappings_to_shift) |->
              _set_mapping(prefix, mappings_to_shift[k][1], mappings_to_shift[k][2])])

\* for old_index, sk in mappings_to_shift:
\*     self._set_mapping(txn, old_index - 1, sk)
ShiftDown(prefix, mappings_to_shift) ==
    Concat([k \in 1..Len(mappings_to_shift) |->
              _set_mapping(prefix, mappings_to_shift[k][1] - 1, mappings_to_shift[k][2])])

\* for old_index, sk in reversed(mappings_to_shift):
\*     self._set_mapping(txn, old_index + 1, sk)
ShiftUp(prefix, mappings_to_shift) ==
    LET rev == Reversed(mappings_to_shift)
    IN Concat([k \in 1..Len(rev) |-> _set_mapping(prefix, rev[k][1] + 1, rev[k][2])])

\* (variant: the index is not checked against [0, count))
__delitem___NoRangeCheck(prefix, txn, key) ==
    LET current_count == _get_count(prefix, txn)
        sort_key == _get_mapping(prefix, txn, key)
        fk == _get_full_keys(prefix, txn, key)
        mappings_to_shift == MappingsToShift(prefix, txn, key + 1, current_count)
    IN IF sort_key = None THEN Done(IndexNotFound(key), <<>>)
       ELSE IF fk.err # None THEN Done(fk.err[1], <<>>)
       ELSE Done(Ok(None),
                 _delete_mapping(prefix, key)
                 \o DeleteOldMappings(prefix, mappings_to_shift)
                 \o ShiftDown(prefix, mappings_to_shift)
                 \o DeleteAll(fk.keys)
                 \o _delete_field_keys_metadata(prefix, sort_key[1])
                 \o _set_count(prefix, current_count - 1))

__delitem__(prefix, txn, key) ==
    LET current_count == _get_count(prefix, txn)
        sort_key == _get_mapping(prefix, txn, key)
        fk == _get_full_keys(prefix, txn, key)
        mappings_to_shift == MappingsToShift(prefix, txn, key + 1, current_count)
    IN IF key < 0 \/ key >= current_count
       THEN Done(OutOfRange(key, current_count), <<>>)
       ELSE IF sort_key = None THEN Done(IndexNotFound(key), <<>>)
       ELSE IF fk.err # None THEN Done(fk.err[1], <<>>)
       ELSE Done(Ok(None),
                 _delete_mapping(prefix, key)
                 \o DeleteOldMappings(prefix, mappings_to_shift)
                 \o ShiftDown(prefix, mappings_to_shift)
                 \o DeleteAll(fk.keys)
                 \o _delete_field_keys_metadata(prefix, sort_key[1])
                 \o _set_count(prefix, current_count - 1))

\* (variant: the new record is stored under its position, not a fresh key)
insert_UnderPosition(prefix, txn, index0, input) ==
    LET current_count == _get_count(prefix, txn)
        index == IF index0 < 0 THEN 0
                 ELSE IF index0 > current_count THEN current_count ELSE index0
        mappings_to_shift == MappingsToShift(prefix, txn, index, current_count)
        alloc == _allocate_sort_key(prefix, txn)
    IN Done(Ok(None),
            DeleteOldMappings(prefix, mappings_to_shift)
            \o ShiftUp(prefix, mappings_to_shift)
            \o alloc.writes
            \o _set_mapping(prefix, index, index)
            \o DataItems(prefix, index, input)
            \o _set_field_keys_metadata(prefix, index, Keys(input))
            \o _set_count(prefix, current_count + 1))

insert(prefix, txn, index0, input) ==
    LET current_count == _get_count(prefix, txn)
        index == IF index0 < 0 THEN 0
                 ELSE IF index0 > current_count THEN current_count ELSE index0
        mappings_to_shift == MappingsToShift(prefix, txn, index, current_count)
        alloc == _allocate_sort_key(prefix, txn)
    IN Done(Ok(None),
            DeleteOldMappings(prefix, mappings_to_shift)
            \o ShiftUp(prefix, mappings_to_shift)
            \o alloc.writes
            \o _set_mapping(prefix, index, alloc.key)
            \o DataItems(prefix, alloc.key, input)
            \o _set_field_keys_metadata(prefix, alloc.key, Keys(input))
            \o _set_count(prefix, current_count + 1))

\* the loop of extend from item idx on: the counter writes it makes at once
\* and the items it stages for the one putmulti
RECURSIVE ExtendLoop(_, _, _, _, _)
ExtendLoop(prefix, txn, items, idx, current_count) ==
    IF idx > Len(items) THEN [allocs |-> <<>>, items_to_insert |-> <<>>]
    ELSE LET item == items[idx]
             logical_index == current_count + (idx - 1)
             alloc == _allocate_sort_key(prefix, txn)
             sort_key_str == Str(alloc.key)
             staged == <<PutW(prefix \o B_idx \o Str(logical_index), sort_key_str)>>
                       \o [k \in 1..Len(item) |->
                             PutW(prefix \o sort_key_str \o B_dash \o item[k][1], item[k][2])]
                       \o <<PutW(prefix \o B_keys \o sort_key_str, JoinLines(Keys(item)))>>
             rest == ExtendLoop(prefix, Apply(txn, alloc.writes), items, idx + 1,
                                current_count)
         IN [allocs |-> alloc.writes \o rest.allocs,
             items_to_insert |-> staged \o rest.items_to_insert]

\* (variant: the Count is raised by one, whatever the number of items)
extend_CountsOne(prefix, txn, items) ==
    IF Len(items) = 0 THEN Done(Ok(None), <<>>)
    ELSE LET current_count == _get_count(prefix, txn)
             loop == ExtendLoop(prefix, txn, items, 1, current_count)
         IN Done(Ok(None),
                 loop.allocs \o loop.items_to_insert
                 \o _set_count(prefix, current_count + 1))

extend(prefix, txn, items) ==
    IF Len(items) = 0 THEN Done(Ok(None), <<>>)
    ELSE LET current_count == _get_count(prefix, txn)
             loop == ExtendLoop(prefix, txn, items, 1, current_count)
         IN Done(Ok(None),
                 loop.allocs \o loop.items_to_insert
                 \o _set_count(prefix, current_count + Len(items)))

\* ------------------------------------------------------------ key accesses
\* The number of txn.get calls insert makes: Count, one mapping lookup per
\* index of range(index, current_count), and NextSortKey.
insert_reads(prefix, txn, index0) ==
    LET current_count == _get_count(prefix, txn)
        index == IF index0 < 0 THEN 0
                 ELSE IF index0 > current_count THEN current_count ELSE index0
    IN 1 + (current_count - index) + 1

\* The number of txn.get calls __delitem__ makes: Count; the mapping of key;
\* in _get_full_keys the mapping again and the FieldKeyList; one mapping
\* lookup per index of range(key + 1, current_count).
__delitem___reads(prefix, txn, key) ==
    LET current_count == _get_count(prefix, txn)
        sort_key == _get_mapping(prefix, txn, key)
    IN IF key < 0 \/ key >= current_count THEN 1
       ELSE IF sort_key = None THEN 2
       ELSE IF _get_field_keys_metadata(prefix, txn, sort_key[1]) = None THEN 4
       ELSE 4 + (current_count - (key + 1))

\* the persisted keys a call reads, puts or deletes
Accesses(reads, outcome) == reads + Len(outcome.writes)

\* ---------------------------------------------------------- state machine
\* db:   the committed content of the LMDB environment (key -> value)
\* call: the last public call made (operation and arguments)
\* out:  what that call gave back (value or exception)
\* wtxn: per writer, the write transaction it has open (NoTxn when none)
VARIABLES db, call, out, wtxn

vars == <<db, call, out, wtxn>>

Writers == {"w1", "w2"}
NoTxn == [phase |-> "none"]

\* prefix=b"" is the constructor's default
DefaultPrefix == <<>>
Instances == {DefaultPrefix}

Indices == (0 - 1)..MaxIndex

RECURSIVE SeqsUpTo(_, _)
SeqsUpTo(S, n) ==
    IF n = 0 THEN {<<>>}
    ELSE LET shorter == SeqsUpTo(S, n - 1)
         IN shorter \cup {Append(s, x) : s \in {t \in shorter : Len(t) = n - 1}, x \in S}

ItemLists == SeqsUpTo(Records, MaxExtend)
KeySets == SUBSET FieldNames

Idle == [op |-> "idle"]
NoResponse == [status |-> "idle"]

Init ==
    /\ db = <<>>
    /\ call = Idle
    /\ out = NoResponse
    /\ wtxn = [w \in Writers |-> NoTxn]

\* with self.env.begin(write=True) as txn: the body's writes are committed
\* together when the body returns, and dropped when it raises
Commit(store, outcome) ==
    IF outcome.resp.status = "ok" THEN Apply(store, outcome.writes) ELSE store

SetItem(self, index, data) ==
    LET outcome == __setitem__(self, db, index, data)
    IN /\ call = Idle
       /\ _get_mapping(self, db, index) = None
           => _get_next_sort_key(self, db) < MaxSortKey
       /\ db' = Commit(db, outcome)
       /\ call' = [op |-> "__setitem__", self |-> self, index |-> index, data |-> data]
       /\ out' = outcome.resp
       /\ UNCHANGED wtxn

Insert(self, index, input) ==
    LET outcome == insert(self, db, index, input)
    IN /\ call = Idle
       /\ _get_next_sort_key(self, db) < MaxSortKey
       /\ _get_count(self, db) < MaxCount
       /\ db' = Commit(db, outcome)
       /\ call' = [op |-> "insert", self |-> self, index |-> index, data |-> input]
       /\ out' = outcome.resp
       /\ UNCHANGED wtxn

DelItem(self, key) ==
    LET outcome == __delitem__(self, db, key)
    IN /\ call = Idle
       /\ db' = Commit(db, outcome)
       /\ call' = [op |-> "__delitem__", self |-> self, index |-> key]
       /\ out' = outcome.resp
       /\ UNCHANGED wtxn

Update(self, index, data) ==
    LET outcome == update(self, db, index, data)
    IN /\ call = Idle
       /\ db' = Commit(db, outcome)
       /\ call' = [op |-> "update", self |-> self, index |-> index, data |-> data]
       /\ out' = outcome.resp
       /\ UNCHANGED wtxn

Extend(self, items) ==
    LET outcome == extend(self, db, items)
    IN /\ call = Idle
       /\ _get_next_sort_key(self, db) + Len(items) <= MaxSortKey
       /\ _get_count(self, db) + Len(items) <= MaxCount
       /\ db' = Commit(db, outcome)
       /\ call' = [op |-> "extend", self |-> self, items |-> items]
       /\ out' = outcome.resp
       /\ UNCHANGED wtxn

\* (variant: a read that persists the Count it found)
GetItem_PersistsCount(self, index) ==
    /\ call = Idle
    /\ out' = __getitem__(self, db, index)
    /\ call' = [op |-> "__getitem__", self |-> self, index |-> index]
    /\ db' = Apply(db, _set_count(self, _get_count(self, db)))
    /\ UNCHANGED wtxn

\* with self.env.begin() as txn: a read-only transaction
GetItem(self, index) ==
    /\ call = Idle
    /\ out' = __getitem__(self, db, index)
    /\ call' = [op |-> "__getitem__", self |-> self, index |-> index]
    /\ UNCHANGED <<db, wtxn>>

Get(self, index, keys) ==
    /\ call = Idle
    /\ out' = get(self, db, index, keys)
    /\ call' = [op |-> "get", self |-> self, index |-> index, keys |-> keys]
    /\ UNCHANGED <<db, wtxn>>

GetAvailableKeys(self, index) ==
    /\ call = Idle
    /\ out' = get_available_keys(self, db, index)
    /\ call' = [op |-> "get_available_keys", self |-> self, index |-> index]
    /\ UNCHANGED <<db, wtxn>>

LenCall(self) ==
    /\ call = Idle
    /\ out' = __len__(self, db)
    /\ call' = [op |-> "__len__", self |-> self]
    /\ UNCHANGED <<db, wtxn>>

\* the call has returned (or raised) and the caller goes on to its next call
Return ==
    /\ call # Idle
    /\ call' = Idle
    /\ out' = NoResponse
    /\ UNCHANGED <<db, wtxn>>

Next ==
    \/ Return
    \/ \E self \in Instances :
        \/ \E index \in Indices, data \in Records : SetItem(self, index, data)
        \/ \E index \in Indices, data \in Records : Insert(self, index, data)
        \/ \E index \in Indices : DelItem(self, index)
        \/ \E index \in Indices, data \in Records : Update(self, index, data)
        \/ \E items \in ItemLists : Extend(self, items)
        \/ \E index \in Indices : GetItem(self, index)
        \/ \E index \in Indices, keys \in {None} \cup {Some(K) : K \in KeySets} :
              Get(self, index, keys)
        \/ \E index \in Indices : GetAvailableKeys(self, index)
        \/ LenCall(self)

Spec == Init /\ [][Next]_vars

\* ------------------------------------------------------- two prefixes
\* Two sequences opened on the same store: BytesIO(file) with the default
\* prefix b"" and BytesIO(file, prefix=b"0-").  A prefix is any byte string;
\* a field name is any byte string too.
NestedPrefix == <<"0", "-">>
PrefixInstances == {DefaultPrefix, NestedPrefix}
PrefixIndices == {0}
ValTwo == <<"2">>
PrefixRecords == { << <<NameA, ValX>> >>, << <<B_meta_count, ValTwo>> >> }

PrefixNext ==
    \/ Return
    \/ \E self \in PrefixInstances :
        \/ \E index \in PrefixIndices, data \in PrefixRecords : SetItem(self, index, data)
        \/ \E index \in PrefixIndices, data \in PrefixRecords : Insert(self, index, data)
        \/ \E index \in PrefixIndices : DelItem(self, index)
        \/ \E index \in PrefixIndices, data \in PrefixRecords : Update(self, index, data)
        \/ \E data \in PrefixRecords : Extend(self, <<data>>)

PrefixSpec == Init /\ [][PrefixNext]_vars

\* ------------------------------------------------- insert, then delete
\* A caller that calls insert(i, R) and, once it has returned, delete(i).
\* The call record keeps the content the insert started from.  The insert may
\* take the one sort key past MaxSortKey, so that it also runs on the fullest
\* sequences the other calls build; the caller stops after such a pair.
InsertFirst(self, index, input) ==
    LET outcome == insert(self, db, index, input)
    IN /\ call = Idle
       /\ index \in 0.._get_count(self, db)
       /\ _get_next_sort_key(self, db) <= MaxSortKey
       /\ _get_count(self, db) < MaxCount
       /\ db' = Commit(db, outcome)
       /\ call' = [op |-> "insert", self |-> self, index |-> index, data |-> input,
                   before |-> db]
       /\ out' = outcome.resp
       /\ UNCHANGED wtxn

DeleteInserted ==
    LET outcome == __delitem__(call.self, db, call.index)
    IN /\ call.op = "insert"
       /\ out.status = "ok"
       /\ db' = Commit(db, outcome)
       /\ call' = [op |-> "__delitem__", self |-> call.self, index |-> call.index,
                   inserted |-> call.data, before |-> call.before]
       /\ out' = outcome.resp
       /\ UNCHANGED wtxn

InverseNext ==
    \/ (_get_next_sort_key(DefaultPrefix, db) <= MaxSortKey /\ Return)
    \/ DeleteInserted
    \/ \E self \in Instances :
        \/ \E index \in Indices, data \in Records : InsertFirst(self, index, data)
        \/ \E index \in Indices, data \in Records : SetItem(self, index, data)
        \/ \E index \in Indices : DelItem(self, index)
        \/ \E index \in Indices, data \in Records : Update(self, index, data)
        \/ \E items \in ItemLists : Extend(self, items)

InverseSpec == Init /\ [][InverseNext]_vars

\* ------------------------------------------------- write transactions
\* The same operations, one write at a time.  env.begin(write=True) takes
\* LMDB's single writer lock and gives the transaction a private view of the
\* committed content; the body's puts and deletes change the view only; leaving
\* the with block commits the view, or aborts it when the body or the store
\* raised.  update({}) and extend([]) return before opening a transaction.
TxnIndices == {0}
TxnRecords == { << <<NameA, ValX>> >>, << <<NameB, ValY>>, <<NameA, ValY>> >> }

WriteCalls ==
    {[op |-> "__setitem__", self |-> DefaultPrefix, index |-> i, data |-> d] :
        i \in TxnIndices, d \in TxnRecords}
    \cup {[op |-> "insert", self |-> DefaultPrefix, index |-> i, data |-> d] :
        i \in TxnIndices, d \in TxnRecords}
    \cup {[op |-> "__delitem__", self |-> DefaultPrefix, index |-> i] : i \in TxnIndices}
    \cup {[op |-> "update", self |-> DefaultPrefix, index |-> i, data |-> d] :
        i \in TxnIndices, d \in TxnRecords \cup {<<>>}}
    \cup {[op |-> "extend", self |-> DefaultPrefix, items |-> l] :
        l \in SeqsUpTo(TxnRecords, MaxExtend)}

\* the body of a write call, run on a transaction's view
Run(txn, c) ==
    CASE c.op = "__setitem__" -> __setitem__(c.self, txn, c.index, c.data)
      [] c.op = "insert" -> insert(c.self, txn, c.index, c.data)
      [] c.op = "__delitem__" -> __delitem__(c.self, txn, c.index)
      [] c.op = "update" -> update(c.self, txn, c.index, c.data)
      [] c.op = "extend" -> extend(c.self, txn, c.items)

\* the number of sort keys a write call allocates
Created(txn, c) ==
    CASE c.op = "__setitem__" ->
             IF _get_mapping(c.self, txn, c.index) = None THEN 1 ELSE 0
      [] c.op = "insert" -> 1
      [] c.op = "extend" -> Len(c.items)
      [] OTHER -> 0

\* the caps on the counters (as in the calls above)
WithinBounds(txn, c) ==
    /\ _get_next_sort_key(c.self, txn) + Created(txn, c) <= MaxSortKey
    /\ c.op = "insert" => _get_count(c.self, txn) < MaxCount
    /\ c.op = "extend" => _get_count(c.self, txn) + Len(c.items) <= MaxCount

\* (variant: every write call opens a write transaction)
OpensWriteTxn_Always(c) == TRUE

\* whether a write call opens a write transaction: update and extend return
\* before env.begin(write=True) when given nothing to write
OpensWriteTxn(c) ==
    CASE c.op = "update" -> Len(c.data) > 0
      [] c.op = "extend" -> Len(c.items) > 0
      [] OTHER -> TRUE

\* (variant: write transactions that do not exclude one another)
WriterLockFree_Unlocked(w) == TRUE

\* LMDB's writer mutex: a write transaction begins when no other writer has
\* one open; until then env.begin(write=True) blocks
WriterLockFree(w) == \A v \in Writers \ {w} : wtxn[v].phase # "open"

\* the store raised inside the transaction (MapFullError, BadValsizeError, ...)
StoreError(applied) == [status |-> "lmdb.Error", applied |-> applied]

\* (variant: an abort that keeps the writes made so far)
Abort_KeepsWrites(store, txn) == txn.view

\* the content after a transaction is aborted
Abort(store, txn) == store

\* the content after a transaction is committed
CommitTxn(store, txn) == txn.view

\* the transaction env.begin(write=True) hands out: a private view of the
\* committed content, on which the body runs
OpenTxn(c) ==
    [phase |-> "open", call |-> c, base |-> db, view |-> db, applied |-> 0,
     pend |-> Run(db, c).writes, resp |-> Run(db, c).resp]

\* a writer calls a write operation and gets the writer lock at once
TxnBegin(w, c) ==
    /\ wtxn[w] = NoTxn
    /\ OpensWriteTxn(c)
    /\ WriterLockFree(w)
    /\ WithinBounds(db, c)
    /\ wtxn' = [wtxn EXCEPT ![w] = OpenTxn(c)]
    /\ out' = NoResponse
    /\ call' = Idle
    /\ UNCHANGED db

\* a writer calls update or extend with nothing to write: the call returns
\* without a transaction, whoever holds the writer lock
TxnSkip(w, c) ==
    /\ wtxn[w] = NoTxn
    /\ ~OpensWriteTxn(c)
    /\ db' = Commit(db, Run(db, c))
    /\ out' = Run(db, c).resp
    /\ call' = c
    /\ UNCHANGED wtxn

\* a writer calls a write operation while another writer holds the lock
TxnBlock(w, c) ==
    /\ wtxn[w] = NoTxn
    /\ OpensWriteTxn(c)
    /\ ~WriterLockFree(w)
    /\ wtxn' = [wtxn EXCEPT ![w] = [phase |-> "blocked", call |-> c]]
    /\ UNCHANGED <<db, call, out>>

\* the lock is released and the blocked writer's transaction begins
TxnResume(w) ==
    /\ wtxn[w].phase = "blocked"
    /\ WriterLockFree(w)
    /\ WithinBounds(db, wtxn[w].call)
    /\ wtxn' = [wtxn EXCEPT ![w] = OpenTxn(wtxn[w].call)]
    /\ out' = NoResponse
    /\ call' = Idle
    /\ UNCHANGED db

\* the body makes its next put or delete
TxnStep(w) ==
    /\ wtxn[w].phase = "open"
    /\ Len(wtxn[w].pend) > 0
    /\ wtxn' = [wtxn EXCEPT ![w].view = ApplyWrite(@, Head(wtxn[w].pend)),
                            ![w].pend = Tail(@),
                            ![w].applied = @ + 1]
    /\ UNCHANGED <<db, call, out>>

\* the store raises at the next put or delete, or at the commit
TxnFail(w) ==
    /\ wtxn[w].phase = "open"
    /\ wtxn[w].resp.status = "ok"
    /\ db' = Abort(db, wtxn[w])
    /\ out' = StoreError(wtxn[w].applied)
    /\ wtxn' = [wtxn EXCEPT ![w] = NoTxn]
    /\ UNCHANGED call

\* the body has run to its end: commit if it returned, abort if it raised
TxnEnd(w) ==
    /\ wtxn[w].phase = "open"
    /\ Len(wtxn[w].pend) = 0
    /\ db' = IF wtxn[w].resp.status = "ok"
             THEN CommitTxn(db, wtxn[w]) ELSE Abort(db, wtxn[w])
    /\ out' = wtxn[w].resp
    /\ wtxn' = [wtxn EXCEPT ![w] = NoTxn]
    /\ UNCHANGED call

TxnNext ==
    \E w \in Writers :
        \/ \E c \in WriteCalls : TxnBegin(w, c)
        \/ \E c \in WriteCalls : TxnSkip(w, c)
        \/ \E c \in WriteCalls : TxnBlock(w, c)
        \/ TxnResume(w)
        \/ TxnStep(w)
        \/ TxnFail(w)
        \/ TxnEnd(w)

TxnSpec == Init /\ [][TxnNext]_vars

\* ------------------------------------------------------------- iteration
\* def __iter__(self): for i in range(len(self)): yield self[i]
\* The generator reads len() once, when it is first advanced, and then makes
\* one __getitem__ call, each in its own read transaction, per element.  The
\* call record is the generator: n is the length it read, i its position,
\* yielded what it has produced so far, start the content it started on.
\* Another handle may commit one write call between two of its steps; round 2
\* is a second iteration started after the first one has ended, prev what the
\* first one produced.
StopIteration == [status |-> "StopIteration"]

\* (variant: the generator starts at index 1)
NewIter_SkipsFirst(self, kv, round, prev, writes) ==
    [op |-> "__iter__", self |-> self, n |-> __len__(self, kv).val, i |-> 1,
     yielded |-> <<>>, done |-> FALSE, start |-> kv, round |-> round,
     prev |-> prev, writes |-> writes]

\* the generator as the first next() leaves it after range(len(self))
NewIter(self, kv, round, prev, writes) ==
    [op |-> "__iter__", self |-> self, n |-> __len__(self, kv).val, i |-> 0,
     yielded |-> <<>>, done |-> FALSE, start |-> kv, round |-> round,
     prev |-> prev, writes |-> writes]

\* (variant: every fetch reads the content the iteration started on)
Fetch_AtStart(c, kv) == __getitem__(c.self, c.start, c.i)

\* self[i] of generator c, read in a transaction begun on content kv
Fetch(c, kv) == __getitem__(c.self, kv, c.i)

IterStart(self) ==
    /\ call = Idle
    /\ call' = NewIter(self, db, 1, <<>>, 0)
    /\ out' = NoResponse
    /\ UNCHANGED <<db, wtxn>>

\* next(): the generator fetches self[i]; a KeyError leaves the generator
IterFetch ==
    LET r == Fetch(call, db)
    IN /\ call.op = "__iter__"
       /\ ~call.done
       /\ call.i < call.n
       /\ out' = r
       /\ call' = IF r.status = "ok"
                  THEN [call EXCEPT !.i = @ + 1, !.yielded = Append(@, r.val)]
                  ELSE [call EXCEPT !.done = TRUE]
       /\ UNCHANGED <<db, wtxn>>

\* next() after the last index: the range is exhausted
IterStop ==
    /\ call.op = "__iter__"
    /\ ~call.done
    /\ call.i >= call.n
    /\ out' = StopIteration
    /\ call' = [call EXCEPT !.done = TRUE]
    /\ UNCHANGED <<db, wtxn>>

\* iter() is called again on the same object
IterRestart ==
    /\ call.op = "__iter__"
    /\ call.done
    /\ call.round = 1
    /\ call' = NewIter(call.self, db, 2, call.yielded, call.writes)
    /\ out' = NoResponse
    /\ UNCHANGED <<db, wtxn>>

\* the caps on the counters for the one write made during an iteration: it
\* may take the one sort key past MaxSortKey
IterWithinBounds(txn, c) ==
    /\ _get_next_sort_key(c.self, txn) + Created(txn, c) <= MaxSortKey + 1
    /\ c.op = "insert" => _get_count(c.self, txn) <= MaxCount
    /\ c.op = "extend" => _get_count(c.self, txn) + Len(c.items) <= MaxCount + 1

\* a write call of another handle commits between two steps of the generator
IterWrite(c) ==
    /\ call.op = "__iter__"
    /\ ~call.done
    /\ call.writes = 0
    /\ IterWithinBounds(db, c)
    /\ db' = Commit(db, Run(db, c))
    /\ call' = [call EXCEPT !.writes = 1]
    /\ UNCHANGED <<out, wtxn>>

IterNext ==
    \/ (_get_next_sort_key(DefaultPrefix, db) <= MaxSortKey /\ Return)
    \/ IterFetch
    \/ IterStop
    \/ IterRestart
    \/ \E c \in WriteCalls : IterWrite(c)
    \/ \E self \in Instances :
        \/ IterStart(self)
        \/ \E index \in Indices, data \in Records : SetItem(self, index, data)
        \/ \E index \in Indices, data \in Records : Insert(self, index, data)
        \/ \E index \in Indices : DelItem(self, index)
        \/ \E index \in Indices, data \in Records : Update(self, index, data)
        \/ \E items \in ItemLists : Extend(self, items)

IterSpec == Init /\ [][IterNext]_vars

\* ------------------------------------------------- reads beside a writer
\* A read call is `with self.env.begin() as txn:` followed by three kinds of
\* lookups in txn: the mapping entry, the FieldKeyList entry, and getmulti on
\* the field entries.  LMDB gives the read transaction the content committed
\* when it began, whatever is committed later, and never makes it wait for
\* the writer lock.  The call record is the reader: snapshot is the content of
\* its transaction, writes the number of commits made while it ran, final the
\* committed content when it returned.  The writer runs its call one put or
\* delete at a time, as above.
ReadIndices == {0, 1}
ReadKeySets == {{NameA}, {NameA, NameB}}

ReadCalls ==
    {[op |-> "__getitem__", self |-> DefaultPrefix, index |-> i] : i \in ReadIndices}
    \cup {[op |-> "get_available_keys", self |-> DefaultPrefix, index |-> i] :
            i \in ReadIndices}
    \cup {[op |-> "get", self |-> DefaultPrefix, index |-> i, keys |-> k] :
            i \in ReadIndices, k \in {None} \cup {Some(K) : K \in ReadKeySets}}

\* the body of a read call, run on a transaction's content
RunRead(txn, c) ==
    CASE c.op = "__getitem__" -> __getitem__(c.self, txn, c.index)
      [] c.op = "get_available_keys" -> get_available_keys(c.self, txn, c.index)
      [] c.op = "get" -> get(c.self, txn, c.index, c.keys)

\* (variant: every lookup reads the content committed at that moment)
ReadView_Live(c, kv) == kv

\* the content a lookup of reader c sees when kv is the committed content
ReadView(c, kv) == c.snapshot

Reading == "phase" \in DOMAIN call /\ call.phase # "done"

\* with self.env.begin() as txn
ReadBegin(c) ==
    /\ call = Idle
    /\ call' = [c |-> c, op |-> c.op, index |-> c.index, phase |-> "mapping",
                snapshot |-> db, writes |-> 0, sort_key |-> 0, keys_to_fetch |-> <<>>,
                final |-> db]
    /\ out' = NoResponse
    /\ UNCHANGED <<db, wtxn>>

\* sort_key = self._get_mapping(txn, index)
ReadMapping ==
    LET sort_key == _get_mapping(call.c.self, ReadView(call, db), call.index)
    IN /\ Reading
       /\ call.phase = "mapping"
       /\ IF sort_key = None
          THEN /\ out' = IndexNotFound(call.index)
               /\ call' = [call EXCEPT !.phase = "done", !.final = db]
          ELSE /\ out' = out
               /\ call' = [call EXCEPT !.phase = "fields", !.sort_key = sort_key[1]]
       /\ UNCHANGED <<db, wtxn>>

\* field_keys = self._get_field_keys_metadata(txn, sort_key), and the keys
\* to fetch built from it or from the keys argument
ReadFieldKeys ==
    LET c == call.c
        pfx == c.self \o Str(call.sort_key) \o B_dash
        field_keys == _get_field_keys_metadata(c.self, ReadView(call, db), call.sort_key)
        requested == IF c.op = "get" /\ c.keys # None
                     THEN Sorted(c.keys[1]) ELSE field_keys[1]
    IN /\ Reading
       /\ call.phase = "fields"
       /\ IF field_keys = None
          THEN /\ out' = MetadataNotFound(call.index, call.sort_key)
               /\ call' = [call EXCEPT !.phase = "done", !.final = db]
          ELSE IF c.op = "get_available_keys"
          THEN /\ out' = Ok(field_keys[1])
               /\ call' = [call EXCEPT !.phase = "done", !.final = db]
          ELSE /\ out' = out
               /\ call' = [call EXCEPT !.phase = "values",
                               !.keys_to_fetch =
                                   [k \in 1..Len(requested) |-> pfx \o requested[k]]]
       /\ UNCHANGED <<db, wtxn>>

\* cursor.getmulti(keys_to_fetch), and the check of the requested keys
ReadValues ==
    LET c == call.c
        pfx == c.self \o Str(call.sort_key) \o B_dash
        result == ResultDict(GetMulti(ReadView(call, db), call.keys_to_fetch), pfx)
    IN /\ Reading
       /\ call.phase = "values"
       /\ out' = IF c.op = "get" /\ c.keys # None
                    /\ Cardinality(DOMAIN result) # Cardinality(c.keys[1])
                 THEN InvalidKeys(call.index, Sorted(c.keys[1] \ DOMAIN result))
                 ELSE Ok(result)
       /\ call' = [call EXCEPT !.phase = "done", !.final = db]
       /\ UNCHANGED <<db, wtxn>>

ReadStep == ReadMapping \/ ReadFieldKeys \/ ReadValues

\* the writer calls a write operation: env.begin(write=True)
WriterBegin(w, c) ==
    /\ wtxn[w] = NoTxn
    /\ OpensWriteTxn(c)
    /\ WriterLockFree(w)
    /\ WithinBounds(db, c)
    /\ wtxn' = [wtxn EXCEPT ![w] = OpenTxn(c)]
    /\ UNCHANGED <<db, call, out>>

\* the writer's body has run to its end: commit if it returned, abort if it
\* raised.  At most one commit is followed per read call.
WriterEnd(w) ==
    /\ wtxn[w].phase = "open"
    /\ Len(wtxn[w].pend) = 0
    /\ Reading => call.writes = 0
    /\ db' = IF wtxn[w].resp.status = "ok"
             THEN CommitTxn(db, wtxn[w]) ELSE Abort(db, wtxn[w])
    /\ call' = IF Reading THEN [call EXCEPT !.writes = @ + 1] ELSE call
    /\ wtxn' = [wtxn EXCEPT ![w] = NoTxn]
    /\ UNCHANGED out

ReadNext ==
    \/ Return
    \/ ReadMapping
    \/ ReadFieldKeys
    \/ ReadValues
    \/ \E c \in ReadCalls : ReadBegin(c)
    \/ \E c \in WriteCalls : WriterBegin("w1", c)
    \/ TxnStep("w1")
    \/ WriterEnd("w1")

ReadSpec == Init /\ [][ReadNext]_vars

\* ------------------------------------------------------- in-range use
\* A caller that uses set only on the indices 0..len(): on an existing
\* record, or at len() to append.  insert takes any index (it clamps), and
\* delete and update check their index themselves.
SetInRange(self, index, data) ==
    /\ index \in 0.._get_count(self, db)
    /\ SetItem(self, index, data)

InRangeNext ==
    \/ Return
    \/ \E self \in Instances :
        \/ \E index \in Indices, data \in Records : SetInRange(self, index, data)
        \/ \E index \in Indices, data \in Records : Insert(self, index, data)
        \/ \E index \in Indices : DelItem(self, index)
        \/ \E index \in Indices, data \in Records : Update(self, index, data)
        \/ \E items \in ItemLists : Extend(self, items)

InRangeSpec == Init /\ [][InRangeNext]_vars

\* ---------------------------------------------------------- observations
\* What a caller of the default-prefix sequence observes in a store content.
Length(kv) == __len__(DefaultPrefix, kv).val
Rec(kv, i) == get(DefaultPrefix, kv, i, None)
Item(kv, i) == __getitem__(DefaultPrefix, kv, i)
AvailableKeys(kv, i) == get_available_keys(DefaultPrefix, kv, i)
SortKeyAt(kv, i) == _get_mapping(DefaultPrefix, kv, i)
NextSortKey(kv) == _get_next_sort_key(DefaultPrefix, kv)

\* the logical indices that have a persisted mapping entry
MappedIndices(prefix, kv) ==
    {IntOf(DropFirst(k, Len(prefix \o B_idx))) :
        k \in {x \in DOMAIN kv : StartsWith(x, prefix \o B_idx)}}

\* the field names that have a physical entry under a sort key
StoredNames(prefix, kv, sort_key) ==
    {DropFirst(k, Len(prefix \o Str(sort_key) \o B_dash)) :
        k \in {x \in DOMAIN kv : StartsWith(x, prefix \o Str(sort_key) \o B_dash)}}

\* the sort keys some logical index maps to
MappedSortKeys(prefix, kv) ==
    {_get_mapping(prefix, kv, i)[1] : i \in MappedIndices(prefix, kv)}

\* the sort keys that have a persisted FieldKeyList entry
FieldKeyListKeys(prefix, kv) ==
    {IntOf(DropFirst(k, Len(prefix \o B_keys))) :
        k \in {x \in DOMAIN kv : StartsWith(x, prefix \o B_keys)}}

GapFree(kv) == MappedIndices(DefaultPrefix, kv) = 0..(Length(kv) - 1)

NoNewline(data) == \A n \in Names(data) : "\n" \notin Range(n)

\* two responses are the same: same exception, or the same value
Same(r1, r2) ==
    /\ r1.status = r2.status
    /\ r1.status = "ok" => r1.val = r2.val

Returns(r, val) == r.status = "ok" /\ r.val = val

\* the step is a call of op by an idle caller
Calls(op) == call = Idle /\ call'.op = op

\* ------------------------------------------------------------------ claims

\* C1: after any sequence of set, insert and delete calls from an empty store
\* the logical indices that have a persisted mapping are exactly
\* {0, ..., len()-1}.
C1_MappedIsRange == GapFree(db)

\* C2: after set(i, R) succeeds, for any record R without newline in its field
\* names, get(i) and __getitem__(i) both return exactly R.
C2_SetGetRoundTrip ==
    (call.op = "__setitem__" /\ out.status = "ok" /\ NoNewline(call.data))
        => /\ Returns(Rec(db, call.index), AsDict(call.data))
           /\ Returns(Item(db, call.index), AsDict(call.data))

\* C5: delete(i) on a gap-free sequence of length n with 0 <= i < n leaves
\* len() = n-1, get(j) unchanged for j < i, get(j) equal to the former get(j+1)
\* for i <= j < n-1, and get(n-1) raising KeyError.
C5_DeleteShiftsDown ==
    [][(Calls("__delitem__") /\ GapFree(db) /\ call'.index \in 0..(Length(db) - 1))
        => LET i == call'.index
               n == Length(db)
           IN /\ out'.status = "ok"
              /\ Length(db') = n - 1
              /\ \A j \in 0..(i - 1) : Same(Rec(db', j), Rec(db, j))
              /\ \A j \in i..(n - 2) : Same(Rec(db', j), Rec(db, j + 1))
              /\ Rec(db', n - 1).status = "KeyError"]_vars

\* C5 witness: delete(0) has succeeded on a gap-free sequence of two records,
\* leaving one record at index 0.
C5_Witness ==
    /\ call.op = "__delitem__" /\ call.index = 0 /\ out.status = "ok"
    /\ Length(db) = 1 /\ GapFree(db)
    /\ Rec(db, 0).status = "ok" /\ DOMAIN Rec(db, 0).val # {}

\* C6: insert(i, R) on a gap-free sequence of length n, with c = i clamped
\* into [0, n]: afterwards len() = n+1, get(c) = R, get(j) is unchanged for
\* j < c and get(j+1) is the former get(j) for c <= j < n.
C6_InsertShiftsUp ==
    [][(Calls("insert") /\ GapFree(db))
        => LET i == call'.index
               n == Length(db)
               c == IF i < 0 THEN 0 ELSE IF i > n THEN n ELSE i
           IN /\ Length(db') = n + 1
              /\ Returns(Rec(db', c), AsDict(call'.data))
              /\ \A j \in 0..(c - 1) : Same(Rec(db', j), Rec(db, j))
              /\ \A j \in c..(n - 1) : Same(Rec(db', j + 1), Rec(db, j))]_vars

\* C7: extend([R0, ..., Rn-1]) on a sequence of length L: afterwards
\* get(L+k) = Rk for 0 <= k < n, len() = L+n and get(j) is unchanged for
\* j < L; extend([]) changes nothing.
C7_ExtendAppends ==
    [][Calls("extend")
        => LET items == call'.items
               L == Length(db)
           IN /\ \A k \in 1..Len(items) :
                    Returns(Rec(db', L + k - 1), AsDict(items[k]))
              /\ Length(db') = L + Len(items)
              /\ \A j \in 0..(L - 1) : Same(Rec(db', j), Rec(db, j))
              /\ Len(items) = 0 => db' = db]_vars

\* the record old overlaid with the fields of data
Overlay(old, data) ==
    [n \in (DOMAIN old) \cup Names(data) |->
        IF n \in Names(data) THEN AsDict(data)[n] ELSE old[n]]

\* C8: update(i, D) with non-empty D on a mapped index i: afterwards get(i)
\* is the previous record overlaid with D, and the names given by
\* get_available_keys(i) are the previous names together with the names of D.
C8_UpdateMerges ==
    [][(Calls("update") /\ Len(call'.data) > 0 /\ SortKeyAt(db, call'.index) # None)
        => LET i == call'.index
           IN /\ Rec(db, i).status = "ok"
              /\ Returns(Rec(db', i), Overlay(Rec(db, i).val, call'.data))
              /\ AvailableKeys(db', i).status = "ok"
              /\ Range(AvailableKeys(db', i).val)
                     = Range(AvailableKeys(db, i).val) \cup Names(call'.data)]_vars

\* C9: set(i, R2) on a mapped index i is a full replace: afterwards
\* get(i) = R2, no field entry absent from R2 remains stored under the
\* record's sort key, and the index keeps its sort key with Count and
\* NextSortKey unchanged.
C9_SetReplaces ==
    [][(Calls("__setitem__") /\ SortKeyAt(db, call'.index) # None)
        => LET i == call'.index
           IN /\ Returns(Rec(db', i), AsDict(call'.data))
              /\ SortKeyAt(db', i) = SortKeyAt(db, i)
              /\ StoredNames(DefaultPrefix, db', SortKeyAt(db, i)[1])
                     \subseteq Names(call'.data)
              /\ Length(db') = Length(db)
              /\ NextSortKey(db') = NextSortKey(db)]_vars

\* C10: get(i, keys=K) on a mapped index i where some name of K is not a
\* field of the record raises KeyError "Invalid keys" listing exactly the
\* missing names, and changes no state.
C10_InvalidKeysRaises ==
    [][(/\ Calls("get")
        /\ call'.keys # None
        /\ Rec(db, call'.index).status = "ok"
        /\ call'.keys[1] \ DOMAIN Rec(db, call'.index).val # {})
        => /\ out' = InvalidKeys(call'.index,
                                 Sorted(call'.keys[1] \ DOMAIN Rec(db, call'.index).val))
           /\ db' = db]_vars


\* a step in which writer w's open transaction commits
Commits(w) ==
    /\ wtxn[w].phase = "open"
    /\ wtxn'[w] = NoTxn
    /\ out'.status = "ok"

\* C3: atomicity on failure.  While a write transaction is open, and when it
\* ends in any way other than a commit (the body raised, or the store raised at
\* some put, delete or at the commit), the persisted content is exactly what
\* it was when the call began: no partially applied mutation is visible.
C3_AtomicOnFailure ==
    [][\A w \in Writers :
          (wtxn[w].phase = "open" /\ ~Commits(w))
              => (db' = db /\ db' = wtxn[w].base)]_vars

\* an operation failed inside its transaction after some of its writes, on a
\* store that holds records
C3_Witness ==
    /\ out.status = "lmdb.Error"
    /\ out.applied > 0
    /\ Length(db) > 0

\* C4: serializability of writers.  Every commit of a writer's transaction
\* leaves the content that running its operation alone, at that moment, on
\* the committed content gives, so the commits in order are a serial run;
\* NextSortKey advances by exactly the number of sort keys the operation was
\* handed, and none of them was handed to an operation committed before.
C4_Serializable ==
    [][\A w \in Writers :
          Commits(w) =>
              LET c == wtxn[w].call
                  handed == NextSortKey(wtxn[w].base) .. (NextSortKey(wtxn[w].view) - 1)
              IN /\ db' = Commit(db, Run(db, c))
                 /\ NextSortKey(db') = NextSortKey(db) + Created(db, c)
                 /\ Length(db') = Length(Commit(db, Run(db, c)))
                 /\ \A k \in handed : k >= NextSortKey(db)]_vars

\* one writer is part way through a transaction that allocates a sort key,
\* on a store another operation has already committed to, while the other
\* writer waits for the lock with its own call
C4_Witness ==
    /\ wtxn["w2"].phase = "open"
    /\ wtxn["w2"].applied > 0
    /\ Created(wtxn["w2"].base, wtxn["w2"].call) > 0
    /\ wtxn["w1"].phase = "blocked"
    /\ NextSortKey(db) > 0

\* the fields of record rec that are named in names
Restrict(rec, names) == [n \in (names \cap DOMAIN rec) |-> rec[n]]

\* C11: get(i, keys=K) on a mapped index i where K holds names that are not
\* fields of the record returns a dict with only the requested names that
\* exist (the empty dict when none exist) and does not raise.
C11_MissingKeysOmitted ==
    [][(/\ Calls("get")
        /\ call'.keys # None
        /\ Rec(db, call'.index).status = "ok"
        /\ call'.keys[1] \ DOMAIN Rec(db, call'.index).val # {})
        => Returns(out', Restrict(Rec(db, call'.index).val, call'.keys[1]))]_vars

\* C12: get(i, keys=K) on a mapped index i where every name of K is a field of
\* the record returns exactly the fields named in K, with the values get(i)
\* returns for them; get(i, keys=None) gives what __getitem__(i) gives;
\* get(i, keys=[]) returns the empty dict.  No state changes.
C12_GetSelectsFields ==
    [][Calls("get")
        => LET i == call'.index
               K == call'.keys
           IN /\ K = None => out' = Item(db, i)
              /\ (K # None /\ Rec(db, i).status = "ok"
                    /\ K[1] \subseteq DOMAIN Rec(db, i).val)
                   => /\ Returns(out', Restrict(Rec(db, i).val, K[1]))
                      /\ DOMAIN out'.val = K[1]
              /\ db' = db]_vars

\* C12 witness: get(i, keys=[a]) has returned the one field a of a record
\* that has the two fields a and b.
C12_Witness ==
    /\ call.op = "get"
    /\ call.keys = Some({NameA})
    /\ out.status = "ok"
    /\ DOMAIN out.val = {NameA}
    /\ Rec(db, call.index).status = "ok"
    /\ DOMAIN Rec(db, call.index).val = {NameA, NameB}

\* the step is a read call (get, __getitem__ or get_available_keys)
CallsRead == Calls("get") \/ Calls("__getitem__") \/ Calls("get_available_keys")

\* C13: get(i), __getitem__(i) and get_available_keys(i) raise KeyError
\* whenever index i has no mapping, and change no state; in every reachable
\* state no index i >= len() has a mapping.
C13_UnmappedRaisesKeyError ==
    [][/\ \A i \in MappedIndices(DefaultPrefix, db') : i < Length(db')
       /\ (CallsRead /\ SortKeyAt(db, call'.index) = None)
            => /\ out'.status = "KeyError"
               /\ out' = IndexNotFound(call'.index)
               /\ db' = db]_vars

\* C13 witness: a read of index len() on a sequence that holds a record has
\* raised KeyError.
C13_Witness ==
    /\ call.op \in {"get", "__getitem__", "get_available_keys"}
    /\ Length(db) > 0
    /\ call.index = Length(db)
    /\ SortKeyAt(db, call.index) = None
    /\ out.status = "KeyError"

\* C14: delete(i) with i < 0 or i >= len() (any delete on an empty sequence
\* included) fails with IndexError and leaves the whole persisted state
\* unchanged.
C14_DeleteOutOfRange ==
    [][(Calls("__delitem__") /\ (call'.index < 0 \/ call'.index >= Length(db)))
        => /\ out' = OutOfRange(call'.index, Length(db))
           /\ out'.status = "IndexError"
           /\ db' = db]_vars

\* C14 witness: delete(-1) has raised IndexError on a sequence that holds a
\* record and has a mapping at index -1.
C14_Witness ==
    /\ call.op = "__delitem__"
    /\ call.index = 0 - 1
    /\ out.status = "IndexError"
    /\ Length(db) > 0
    /\ SortKeyAt(db, 0 - 1) # None

C16_EmptyUpdateNoOp ==
    [][/\ \A w \in Writers :
            (wtxn'[w] # wtxn[w] /\ wtxn'[w].phase # "none")
                => ~(wtxn'[w].call.op = "update" /\ Len(wtxn'[w].call.data) = 0)
       /\ (/\ call' # call
           /\ call'.op = "update"
           /\ Len(call'.data) = 0
           /\ SortKeyAt(db, call'.index) # None)
            => /\ out' = Ok(None)
               /\ wtxn' = wtxn
               /\ db' = db
               /\ AvailableKeys(db', call'.index) = AvailableKeys(db, call'.index)
               /\ Rec(db', call'.index) = Rec(db, call'.index)]_vars

\* C16 witness: update(i, {}) has returned on a record whose FieldKeyList is
\* (b, a), while the other writer has a write transaction open.
C16_Witness ==
    /\ call.op = "update"
    /\ Len(call.data) = 0
    /\ out = Ok(None)
    /\ AvailableKeys(db, call.index) = Ok(<<NameB, NameA>>)
    /\ \E w \in Writers : wtxn[w].phase = "open" /\ wtxn[w].applied > 0

\* C17: sort keys are never reused.  On every step NextSortKey does not
\* decrease; every sort key that becomes mapped is at least the NextSortKey
\* of before, hence different from every key handed out earlier; a sort key
\* below NextSortKey that is mapped to no index (its record was deleted) is
\* never mapped again.
C17_SortKeysNeverReused ==
    [][/\ NextSortKey(db') >= NextSortKey(db)
       /\ \A s \in MappedSortKeys(DefaultPrefix, db') \ MappedSortKeys(DefaultPrefix, db) :
             s >= NextSortKey(db) /\ s < NextSortKey(db')
       /\ \A s \in 0..(NextSortKey(db) - 1) :
             s \notin MappedSortKeys(DefaultPrefix, db)
                 => s \notin MappedSortKeys(DefaultPrefix, db')]_vars

\* C17 witness: after a delete, a record has been created again at index 0
\* and has the fresh sort key 1; the deleted record's sort key 0 is unmapped.
C17_Witness ==
    /\ call.op \in {"__setitem__", "insert", "extend"}
    /\ out.status = "ok"
    /\ NextSortKey(db) = 2
    /\ SortKeyAt(db, 0) = Some(1)
    /\ MappedSortKeys(DefaultPrefix, db) = {1}

\* C18: FieldKeyList stays in sync with the stored fields: in every reachable
\* state, for every sort key s that has a FieldKeyList, the set of names read
\* back from it equals the set of field names that have a physical field
\* entry under s.
C18_FieldKeyListInSync ==
    \A s \in FieldKeyListKeys(DefaultPrefix, db) :
        Range(_get_field_keys_metadata(DefaultPrefix, db, s)[1])
            = StoredNames(DefaultPrefix, db, s)

\* C19: prefix isolation.  When two sequences are opened on the same store
\* with different prefixes, no operation performed through one of them
\* changes what len(), get(i) or get_available_keys(i) return through the
\* other, for any i.
C19_PrefixIsolation ==
    [][\A p2 \in PrefixInstances :
          (call = Idle /\ call' # Idle /\ call'.self # p2)
              => /\ __len__(p2, db') = __len__(p2, db)
                 /\ \A i \in PrefixIndices :
                       /\ get(p2, db', i, None) = get(p2, db, i, None)
                       /\ get_available_keys(p2, db', i) = get_available_keys(p2, db, i)]_vars

\* C20: insert/delete inverse.  From every reachable state, for every i with
\* 0 <= i <= len() and every record R, insert(i, R) followed by delete(i)
\* succeeds and restores the sequence content: len() and get(j) for every j
\* are what they were before the insert.
C20_InsertDeleteInverse ==
    (call.op = "__delitem__" /\ "before" \in DOMAIN call)
        => /\ out.status = "ok"
           /\ Length(db) = Length(call.before)
           /\ \A j \in (0 - 1)..(MaxCount + 1) : Rec(db, j) = Rec(call.before, j)

\* C20 witness: insert(0, R) and then delete(0) have run on a sequence of two
\* records, so the insert shifted both up and the delete shifted them back.
C20_Witness ==
    /\ call.op = "__delitem__"
    /\ "before" \in DOMAIN call
    /\ call.index = 0
    /\ out.status = "ok"
    /\ Length(call.before) = 2
    /\ GapFree(call.before)
    /\ Rec(db, 1).status = "ok"

\* the persisted Count of the default-prefix sequence
Count(kv) == _get_count(DefaultPrefix, kv)

\* C21: len() returns the persisted Count (0 for a fresh store), and Count
\* changes only so: a successful insert adds 1, a successful delete subtracts
\* 1, an extend of n records adds n, a set on an unmapped index i >= Count
\* sets it to i+1; a set on a mapped index, update, get, get_available_keys,
\* len and every failed operation leave it unchanged.
C21_CountChanges ==
    [][LET c == Count(db)
           d == Count(db')
           ok == out'.status = "ok"
       IN /\ db = <<>> => c = 0
          /\ Calls("__len__") => (out' = Ok(c) /\ d = c)
          /\ (Calls("insert") /\ ok) => d = c + 1
          /\ (Calls("__delitem__") /\ ok) => d = c - 1
          /\ (Calls("extend") /\ ok) => d = c + Len(call'.items)
          /\ (Calls("__setitem__") /\ ok /\ SortKeyAt(db, call'.index) = None
                /\ call'.index >= c) => d = call'.index + 1
          /\ (Calls("__setitem__") /\ SortKeyAt(db, call'.index) # None) => d = c
          /\ (Calls("update") \/ CallsRead) => d = c
          /\ (call = Idle /\ call' # Idle /\ ~ok) => d = c
          /\ d # c => \/ call'.op \in {"insert", "__delitem__", "extend"}
                      \/ /\ call'.op = "__setitem__"
                         /\ SortKeyAt(db, call'.index) = None
                         /\ call'.index >= c]_vars

\* C21 witness: a set on the unmapped index 2 of a sequence of length 1 has
\* made len() 3.
C21_Witness ==
    /\ call.op = "__setitem__"
    /\ call.index = 2
    /\ out.status = "ok"
    /\ Count(db) = 3
    /\ MappedIndices(DefaultPrefix, db) = {0, 2}

\* C22: iteration with no interleaved writes on a gap-free sequence yields
\* exactly get(0), get(1), ..., get(len()-1) in that order and then stops; on
\* an empty sequence it yields nothing; a restarted iteration yields the same
\* sequence again.
C22_IterationInOrder ==
    (call.op = "__iter__" /\ call.writes = 0 /\ GapFree(call.start))
        => LET n == Length(call.start)
           IN /\ db = call.start
              /\ call.n = n
              /\ Len(call.yielded) = call.i
              /\ \A k \in 1..Len(call.yielded) :
                    Returns(Rec(call.start, k - 1), call.yielded[k])
              /\ call.done => (Len(call.yielded) = n /\ out = StopIteration)
              /\ (call.done /\ call.round = 2) => call.yielded = call.prev

\* C22 witness: a second iteration over a gap-free sequence of two different
\* records has ended, with no write since the first one started.
C22_Witness ==
    /\ call.op = "__iter__"
    /\ call.done
    /\ call.round = 2
    /\ call.writes = 0
    /\ GapFree(call.start)
    /\ Len(call.yielded) = 2
    /\ call.yielded[1] # call.yielded[2]
    /\ out = StopIteration

\* the step is a next() of the running generator
IterAdvances ==
    /\ call.op = "__iter__"
    /\ ~call.done
    /\ call'.op = "__iter__"
    /\ call'.round = call.round
    /\ call'.writes = call.writes
    /\ call' # call

\* the records of a content, as an iteration with no writes would give them
Content(kv) == [k \in 1..Length(kv) |-> Item(kv, k - 1)]

\* C23: iteration under concurrent writers.  The generator reads len() once
\* when it starts and then fetches the indices 0..len-1 in increasing order,
\* each fetch reading the content committed at that moment, so it ends after
\* at most that many fetches whatever is written meanwhile, and a write
\* committed between two fetches is observed by the later fetch.
C23_IterationNotSnapshot ==
    [][/\ (call.op = "__iter__" /\ call'.op = "__iter__" /\ call'.round = call.round)
            => (call'.n = call.n /\ call.n = Length(call.start))
       /\ call'.op = "__iter__"
            => (call'.i <= call'.n /\ Len(call'.yielded) = call'.i)
       /\ IterAdvances
            => /\ db' = db
               /\ IF call.i < call.n
                  THEN /\ out' = Item(db, call.i)
                       /\ IF out'.status = "ok"
                          THEN /\ call'.i = call.i + 1
                               /\ call'.yielded = Append(call.yielded, Item(db, call.i).val)
                               /\ ~call'.done
                          ELSE call'.done /\ call'.i = call.i
                  ELSE out' = StopIteration /\ call'.done]_vars

\* C23 witness: an iteration over two different records, during which one
\* write was committed, has ended normally after yielding the same record
\* twice: what it yielded is neither the content it started on nor the content
\* after the write.
C23_Witness ==
    /\ call.op = "__iter__"
    /\ call.done
    /\ call.writes = 1
    /\ out = StopIteration
    /\ GapFree(call.start)
    /\ GapFree(db)
    /\ Len(call.yielded) = 2
    /\ call.yielded[1] = call.yielded[2]
    /\ Item(call.start, 0) # Item(call.start, 1)
    /\ [k \in 1..Len(call.yielded) |-> Ok(call.yielded[k])]
           \notin {Content(call.start), Content(db)}

\* C24: reader snapshot consistency.  A get(i), get(i, keys) or
\* get_available_keys(i) that runs beside a write operation returns either
\* the result it gives on the content before that write or the result on the
\* content after its commit, never a mix of a mapping from one with a
\* FieldKeyList or field values from the other, and its next lookup can
\* always be made, whatever the writer is doing.
C24_ReaderSnapshot ==
    /\ Reading => ENABLED ReadStep
    /\ \A c \in ReadCalls : call = Idle => ENABLED ReadBegin(c)
    /\ ("phase" \in DOMAIN call /\ call.phase = "done")
         => /\ out \in {RunRead(call.snapshot, call.c), RunRead(call.final, call.c)}
            /\ call.writes = 0 => call.final = call.snapshot

\* C24 witness: a read has returned a record although a write that changes
\* its result was committed while it ran, and while the writer is part way
\* through a further write transaction.
C24_Witness ==
    /\ "phase" \in DOMAIN call
    /\ call.phase = "done"
    /\ call.writes = 1
    /\ out.status = "ok"
    /\ RunRead(call.snapshot, call.c) # RunRead(call.final, call.c)
    /\ wtxn["w1"].phase = "open"
    /\ wtxn["w1"].applied > 0

\* C25: reads are pure.  get, __getitem__, get_available_keys and len never
\* change any persisted state, so the same call made again right after, with
\* no write in between, gives the identical record, or raises the same error.
C25_ReadsArePure ==
    [][(CallsRead \/ Calls("__len__"))
        => /\ db' = db
           /\ Calls("get")
                => get(call'.self, db', call'.index, call'.keys) = out'
           /\ Calls("__getitem__") => Item(db', call'.index) = out'
           /\ Calls("get_available_keys") => AvailableKeys(db', call'.index) = out'
           /\ Calls("__len__") => __len__(call'.self, db') = out']_vars

\* C25 witness: get(i) has returned a record of two fields, and get(i) on the
\* state it left returns that record again.
C25_Witness ==
    /\ call.op = "get"
    /\ call.keys = None
    /\ out.status = "ok"
    /\ DOMAIN out.val = {NameA, NameB}
    /\ Rec(db, call.index) = out

\* the persisted entries of the record under a sort key: its field entries
\* and its FieldKeyList entry
RecordEntries(prefix, kv, sort_key) ==
    LET ks == {x \in DOMAIN kv :
                  \/ StartsWith(x, prefix \o Str(sort_key) \o B_dash)
                  \/ x = prefix \o B_keys \o Str(sort_key)}
    IN [x \in ks |-> kv[x]]

\* every index a call can name or a mapping can sit at
AllIndices == (0 - 1)..(MaxCount + 1)
\* every sort key that can have been handed out
AllSortKeys == 0..(MaxSortKey + 1)

\* C26: update(i, D) affects only the record at index i: Count, NextSortKey,
\* every index-to-sort-key mapping, and the fields and FieldKeyList of every
\* other record are unchanged, so get(j) for every j # i returns the same
\* record as before.
C26_UpdateTouchesOneRecord ==
    [][Calls("update")
        => LET i == call'.index
           IN /\ Count(db') = Count(db)
              /\ NextSortKey(db') = NextSortKey(db)
              /\ MappedIndices(DefaultPrefix, db') = MappedIndices(DefaultPrefix, db)
              /\ \A j \in AllIndices : SortKeyAt(db', j) = SortKeyAt(db, j)
              /\ \A s \in AllSortKeys :
                    SortKeyAt(db, i) # Some(s)
                        => RecordEntries(DefaultPrefix, db', s)
                               = RecordEntries(DefaultPrefix, db, s)
              /\ \A j \in AllIndices \ {i} : Rec(db', j) = Rec(db, j)]_vars

\* C26 witness: update(0, D) has changed the record at index 0 of a sequence
\* that holds another record, with fields, at index 1.
C26_Witness ==
    /\ call.op = "update"
    /\ call.index = 0
    /\ Len(call.data) > 0
    /\ out.status = "ok"
    /\ Length(db) = 2
    /\ Rec(db, 1).status = "ok"
    /\ DOMAIN Rec(db, 1).val # {}
    /\ Rec(db, 0) # Rec(db, 1)

InsertCost(kv, index, input) ==
    Accesses(insert_reads(DefaultPrefix, kv, index),
             insert(DefaultPrefix, kv, index, input))

DeleteCost(kv, key) ==
    Accesses(__delitem___reads(DefaultPrefix, kv, key),
             __delitem__(DefaultPrefix, kv, key))

\* the cost of insert on an empty sequence, and of delete on a sequence of
\* one record, for a record without fields
InsertBase == InsertCost(<<>>, 0, <<>>)
DeleteBase == DeleteCost(Commit(<<>>, insert(DefaultPrefix, <<>>, 0, <<>>)), 0)

\* insert's position after clamping into [0, len()]
Clamped(kv, index) ==
    IF index < 0 THEN 0 ELSE IF index > Length(kv) THEN Length(kv) ELSE index

\* C27: insert(index, R) and delete(index) have O(1) cost: the number of
\* persisted keys they read, write or delete is a constant plus the number of
\* fields of the one affected record, whatever the number of records and the
\* position: no more than the same call costs on the shortest sequence.
C27_ConstantCost ==
    [][/\ Calls("insert")
            => InsertCost(db, call'.index, call'.data) <= InsertBase + Len(call'.data)
       /\ (Calls("__delitem__") /\ out'.status = "ok")
            => DeleteCost(db, call'.index)
                   <= DeleteBase + Len(AvailableKeys(db, call'.index).val)]_vars

\* C27 as amended: insert and delete never touch the entries of another
\* record, but they rewrite the mapping of every index behind the position.
\* Their cost is a constant plus the number of fields of the affected record
\* plus one lookup for each index from the position to the end and one delete
\* and one put for each of those that is mapped: at most three key accesses
\* per index behind the position, and constant only at the end of the sequence.
C27_CostGrowsWithTail ==
    [][/\ Calls("insert")
            => LET c == Clamped(db, call'.index)
                   tail == Length(db) - c
                   shifted == Len(MappingsToShift(DefaultPrefix, db, c, Length(db)))
                   cost == InsertCost(db, call'.index, call'.data)
               IN /\ cost = InsertBase + Len(call'.data) + tail + 2 * shifted
                  /\ cost <= InsertBase + Len(call'.data) + 3 * tail
       /\ (Calls("__delitem__") /\ out'.status = "ok")
            => LET i == call'.index
                   tail == Length(db) - (i + 1)
                   shifted == Len(MappingsToShift(DefaultPrefix, db, i + 1, Length(db)))
                   fields == Len(AvailableKeys(db, i).val)
                   cost == DeleteCost(db, i)
               IN /\ cost = DeleteBase + fields + tail + 2 * shifted
                  /\ cost <= DeleteBase + fields + 3 * tail]_vars

\* C27 witness: insert(0, R) has run on a sequence that held a record, whose
\* mapping it moved from index 0 to index 1.
C27_Witness ==
    /\ call.op = "insert"
    /\ call.index = 0
    /\ out.status = "ok"
    /\ Length(db) = 2
    /\ SortKeyAt(db, 0) = Some(1)
    /\ SortKeyAt(db, 1) = Some(0)

\* C28: delete(i) succeeds for every i with 0 <= i < len() in every reachable
\* state: it never raises for an in-range index, and it decrements len() by
\* exactly 1.
C28_DeleteInRangeSucceeds ==
    [][(Calls("__delitem__") /\ call'.index \in 0..(Length(db) - 1))
        => /\ out'.status = "ok"
           /\ Length(db') = Length(db) - 1]_vars

\* C29: set(i, R) targets exactly one position: it never creates, removes or
\* changes the mapping of any index other than i, never changes the fields or
\* the FieldKeyList of any record other than the one at i, and changes
\* NextSortKey, by exactly +1, only when i was unmapped.
C29_SetTouchesOnePosition ==
    [][Calls("__setitem__")
        => LET i == call'.index
           IN /\ out'.status = "ok"
              /\ MappedIndices(DefaultPrefix, db') \ {i}
                     = MappedIndices(DefaultPrefix, db) \ {i}
              /\ \A j \in AllIndices \ {i} : SortKeyAt(db', j) = SortKeyAt(db, j)
              /\ \A s \in AllSortKeys :
                    SortKeyAt(db', i) # Some(s)
                        => RecordEntries(DefaultPrefix, db', s)
                               = RecordEntries(DefaultPrefix, db, s)
              /\ \A j \in AllIndices \ {i} : Rec(db', j) = Rec(db, j)
              /\ SortKeyAt(db, i) # None
                    => (NextSortKey(db') = NextSortKey(db)
                        /\ SortKeyAt(db', i) = SortKeyAt(db, i))
              /\ SortKeyAt(db, i) = None
                    => (NextSortKey(db') = NextSortKey(db) + 1
                        /\ SortKeyAt(db', i) = Some(NextSortKey(db)))]_vars

\* C29 witness: set(0, R) has run on a sequence whose index 0 holds the second
\* record created (sort key 1) and whose index 1 holds another record with
\* fields.
C29_Witness ==
    /\ call.op = "__setitem__"
    /\ call.index = 0
    /\ Len(call.data) > 0
    /\ out.status = "ok"
    /\ SortKeyAt(db, 0) = Some(1)
    /\ SortKeyAt(db, 1) = Some(0)
    /\ DOMAIN Rec(db, 1).val # {}
    /\ Rec(db, 1) # Rec(db, 0)

\* the persisted keys an operation puts or deletes
Touched(outcome) == {outcome.writes[k].k : k \in 1..Len(outcome.writes)}

\* a mapping entry, Count or NextSortKey of the default-prefix sequence
IsBookkeeping(key) ==
    \/ key = DefaultPrefix \o B_meta_count
    \/ key = DefaultPrefix \o B_meta_next_sort_key
    \/ StartsWith(key, DefaultPrefix \o B_idx)

\* a field entry or the FieldKeyList entry of the record under a sort key
IsEntryOf(key, sort_key) ==
    \/ StartsWith(key, DefaultPrefix \o Str(sort_key) \o B_dash)
    \/ key = DefaultPrefix \o B_keys \o Str(sort_key)

\* C30: insert and delete do not shift data.  Every record other than the one
\* inserted or deleted keeps its sort key, its FieldKeyList and all of its
\* field entries untouched; apart from the entries of the inserted or deleted
\* record, only mapping entries, Count and NextSortKey are written.
C30_NoDataShift ==
    [][/\ Calls("insert")
            => LET new == NextSortKey(db)
                   outcome == insert(DefaultPrefix, db, call'.index, call'.data)
               IN /\ \A key \in Touched(outcome) :
                        IsBookkeeping(key) \/ IsEntryOf(key, new)
                  /\ \A s \in AllSortKeys \ {new} :
                        RecordEntries(DefaultPrefix, db', s)
                            = RecordEntries(DefaultPrefix, db, s)
                  /\ MappedSortKeys(DefaultPrefix, db')
                         = MappedSortKeys(DefaultPrefix, db) \cup {new}
       /\ (Calls("__delitem__") /\ out'.status = "ok")
            => LET old == SortKeyAt(db, call'.index)[1]
                   outcome == __delitem__(DefaultPrefix, db, call'.index)
               IN /\ \A key \in Touched(outcome) :
                        IsBookkeeping(key) \/ IsEntryOf(key, old)
                  /\ \A s \in AllSortKeys \ {old} :
                        RecordEntries(DefaultPrefix, db', s)
                            = RecordEntries(DefaultPrefix, db, s)
                  /\ MappedSortKeys(DefaultPrefix, db')
                         = MappedSortKeys(DefaultPrefix, db) \ {old}]_vars

\* C30 witness: delete(0) has moved a record of two fields from index 1 to
\* index 0; it is still stored under its sort key 1.
C30_Witness ==
    /\ call.op = "__delitem__"
    /\ call.index = 0
    /\ out.status = "ok"
    /\ SortKeyAt(db, 0) = Some(1)
    /\ StoredNames(DefaultPrefix, db, 1) = {NameA, NameB}
    /\ DOMAIN Rec(db, 0).val = {NameA, NameB}

\* the index at which the last call, an insert, placed its record
InsertedAt(kv, c) ==
    IF c.index < 0 THEN 0
    ELSE IF c.index > Length(kv) - 1 THEN Length(kv) - 1 ELSE c.index

\* C31: after set(i, R), insert(i, R) or extend with R, get_available_keys at
\* that record's index returns exactly the field names of R, in R's insertion
\* order, none missing and none added, for every record R whose field names
\* contain no newline.
C31_AvailableKeysAreFieldNames ==
    /\ (call.op = "__setitem__" /\ out.status = "ok" /\ NoNewline(call.data))
         => AvailableKeys(db, call.index) = Ok(Keys(call.data))
    /\ (call.op = "insert" /\ out.status = "ok" /\ NoNewline(call.data))
         => AvailableKeys(db, InsertedAt(db, call)) = Ok(Keys(call.data))
    /\ (call.op = "extend" /\ out.status = "ok")
         => \A k \in 1..Len(call.items) :
               NoNewline(call.items[k])
                   => AvailableKeys(db, Length(db) - Len(call.items) + k - 1)
                          = Ok(Keys(call.items[k]))

\* C32: gap-freedom under in-range use.  Starting from an empty store, after
\* any sequence of insert (any index), delete, extend, update, and set on
\* indices 0 <= i <= len() only, the mapped logical indices are exactly
\* {0, ..., len()-1} and get(i) succeeds for every 0 <= i < len().
C32_GapFreeInRange ==
    /\ MappedIndices(DefaultPrefix, db) = 0..(Length(db) - 1)
    /\ \A i \in 0..(Length(db) - 1) : Rec(db, i).status = "ok"

\* C32 witness: after a delete has emptied the sequence, a set at index len()
\* has appended a record with fields, which has the fresh sort key 1.
C32_Witness ==
    /\ call.op = "__setitem__"
    /\ call.index = 0
    /\ out.status = "ok"
    /\ Length(db) = 1
    /\ SortKeyAt(db, 0) = Some(1)
    /\ DOMAIN Rec(db, 0).val # {}

\* C33: in every reachable state, those with index gaps made by a set beyond
\* the end included, Count is not negative and every mapped logical index is
\* strictly below Count, so the indices extend and insert-at-end write their
\* mappings at, Count and above, hold no mapping that could be overwritten.
C33_MappedBelowCount ==
    /\ Count(db) >= 0
    /\ \A i \in MappedIndices(DefaultPrefix, db) : i < Count(db)
    /\ \A j \in Count(db)..(Count(db) + MaxExtend) : SortKeyAt(db, j) = None

\* C33 witness: a set beyond the end has left a sequence of length 3 whose
\* only mapped index is 2.
C33_Witness ==
    /\ call.op = "__setitem__"
    /\ out.status = "ok"
    /\ Count(db) = 3
    /\ MappedIndices(DefaultPrefix, db) = {2}

\* C34: in every reachable state the index-to-sort-key mapping is injective
\* (no two logical indices map to the same sort key) and every mapped sort
\* key is strictly below NextSortKey.
C34_MappingInjective ==
    /\ \A i, j \in MappedIndices(DefaultPrefix, db) :
          i # j => SortKeyAt(db, i) # SortKeyAt(db, j)
    /\ \A s \in MappedSortKeys(DefaultPrefix, db) : s >= 0 /\ s < NextSortKey(db)

\* C34 witness: an insert has mapped index 0 to sort key 1 beside a record
\* that a set had placed at index -1 with sort key 0.
C34_Witness ==
    /\ call.op = "insert"
    /\ out.status = "ok"
    /\ MappedIndices(DefaultPrefix, db) = {0 - 1, 0}
    /\ SortKeyAt(db, 0 - 1) = Some(0)
    /\ SortKeyAt(db, 0) = Some(1)
    /\ NextSortKey(db) = 2

\* C35: no orphaned data.  In every reachable state a FieldKeyList entry or a
\* physical field entry exists for a sort key s only if some logical index
\* maps to s, and every mapped sort key has a FieldKeyList entry; so after
\* delete(i) nothing stored under the deleted record's sort key remains.
C35_NoOrphans ==
    /\ \A s \in AllSortKeys :
          (s \in FieldKeyListKeys(DefaultPrefix, db)
             \/ StoredNames(DefaultPrefix, db, s) # {})
              => s \in MappedSortKeys(DefaultPrefix, db)
    /\ \A s \in MappedSortKeys(DefaultPrefix, db) :
          s \in FieldKeyListKeys(DefaultPrefix, db)

\* the content after insert(len(), Rk) has been executed for k = from..n-1 in
\* order, each call in a write transaction of its own
RECURSIVE InsertEach(_, _, _, _)
InsertEach(prefix, kv, items, from) ==
    IF from > Len(items) THEN kv
    ELSE InsertEach(prefix,
                    Commit(kv, insert(prefix, kv, __len__(prefix, kv).val, items[from])),
                    items, from + 1)

\* C36: extend(items) is equivalent to appending one by one: every extend
\* call leaves exactly the persisted content (Count, NextSortKey, mappings,
\* FieldKeyLists, field entries) that executing insert(len(), Rk) for
\* k = 0..n-1 in order would leave from the same content.
C36_ExtendIsRepeatedInsert ==
    [][Calls("extend") =>
          db' = InsertEach(call'.self, db, call'.items, 1)]_vars

\* C36 witness: an extend has appended two different records, the second of
\* them with fields, and both are read back at indices 0 and 1.
C36_Witness ==
    /\ call.op = "extend"
    /\ Len(call.items) = 2
    /\ call.items[1] # call.items[2]
    /\ out.status = "ok"
    /\ Length(db) = 2
    /\ NextSortKey(db) = 2
    /\ Item(db, 0).status = "ok"
    /\ Item(db, 1).status = "ok"
    /\ DOMAIN Item(db, 1).val # {}
    /\ Item(db, 0) # Item(db, 1)

\* ---------------------------------------------------- concurrent appends
\* BytesIO is a collections.abc.MutableSequence, whose append(value) is
\* self.insert(len(self), value): len() runs in a read transaction of its
\* own, insert in a write transaction begun afterwards.  Two handles call
\* append at once on a content that set, insert and delete calls have built.
\* The call record holds the content the appends began on (base) and, per
\* writer, the record it appends, the length it has read and its position:
\* "called" (nothing done), "len" (length read), "insert" (transaction begun;
\* the call has returned when that transaction is no longer open).
Appending == call # Idle /\ call.op = "append"

\* a set, insert or delete call has returned, before the appends
AppendSetupReturn ==
    /\ ~Appending
    /\ Return

\* the two handles call append, writer w1 with data1 and w2 with data2
AppendCall(data1, data2) ==
    /\ call = Idle
    /\ _get_next_sort_key(DefaultPrefix, db) <= MaxSortKey
    /\ _get_count(DefaultPrefix, db) <= MaxCount
    /\ call' = [op |-> "append", base |-> db,
                app |-> [w \in Writers |->
                           [phase |-> "called", n |-> 0,
                            data |-> IF w = "w1" THEN data1 ELSE data2]]]
    /\ out' = NoResponse
    /\ UNCHANGED <<db, wtxn>>

\* len(self): the length, read in a read transaction on the committed content
AppendLen(w) ==
    /\ Appending
    /\ call.app[w].phase = "called"
    /\ call' = [call EXCEPT !.app[w].phase = "len",
                            !.app[w].n = __len__(DefaultPrefix, db).val]
    /\ UNCHANGED <<db, out, wtxn>>

\* self.insert(n, value): env.begin(write=True) returns once no other writer
\* holds the lock, with a view of the content committed by then
AppendInsert(w) ==
    /\ Appending
    /\ call.app[w].phase = "len"
    /\ WriterLockFree(w)
    /\ wtxn' = [wtxn EXCEPT ![w] =
                   OpenTxn([op |-> "insert", self |-> DefaultPrefix,
                            index |-> call.app[w].n, data |-> call.app[w].data])]
    /\ call' = [call EXCEPT !.app[w].phase = "insert"]
    /\ UNCHANGED <<db, out>>

\* both append calls have returned
AppendDone ==
    /\ Appending
    /\ \A w \in Writers : call.app[w].phase = "insert" /\ wtxn[w] = NoTxn

AppendNext ==
    \/ AppendSetupReturn
    \/ \E index \in Indices, data \in Records : SetItem(DefaultPrefix, index, data)
    \/ \E index \in Indices, data \in Records : Insert(DefaultPrefix, index, data)
    \/ \E key \in Indices : DelItem(DefaultPrefix, key)
    \/ \E data1 \in Records, data2 \in Records : AppendCall(data1, data2)
    \/ \E w \in Writers :
        \/ AppendLen(w)
        \/ AppendInsert(w)
        \/ TxnStep(w)
        \/ TxnEnd(w)

AppendSpec == Init /\ [][AppendNext]_vars

\* C37: concurrent appends lose nothing.  When two writers each call
\* append(R) (len() in a read transaction, then insert(len, R) in a write
\* transaction), with any interleaving, after both have returned len() has
\* grown by exactly 2, both records are retrievable at distinct indices, and
\* every pre-existing record is still at its original index.
C37_AppendsLoseNothing ==
    AppendDone =>
        /\ Length(db) = Length(call.base) + 2
        /\ \E i \in 0..(Length(db) - 1), j \in 0..(Length(db) - 1) :
              /\ i # j
              /\ Returns(Item(db, i), AsDict(call.app["w1"].data))
              /\ Returns(Item(db, j), AsDict(call.app["w2"].data))
        /\ \A i \in 0..(Length(call.base) - 1) :
              /\ SortKeyAt(db, i) = SortKeyAt(call.base, i)
              /\ Item(db, i) = Item(call.base, i)

\* C38: NextSortKey counts record creations.  It is 0 on the empty store and
\* every step raises it by exactly the number of records the step creates: 1
\* for a successful set on an unmapped index, 1 for a successful insert, the
\* number of items for a successful extend, and 0 for every other call and
\* for every call that fails; so in every reachable state it equals the total
\* number of records ever created.
C38_NextSortKeyCountsCreations ==
    /\ NextSortKey(db) = 0
    /\ [][NextSortKey(db') = NextSortKey(db)
              + (IF call = Idle /\ call' # Idle /\ out'.status = "ok"
                 THEN Created(db, call') ELSE 0)]_vars

\* C38 witness: two records were created and both deleted again, and a
\* further delete has failed: NextSortKey is 2 on a sequence of length 0.
C38_Witness ==
    /\ call.op = "__delitem__"
    /\ out.status # "ok"
    /\ NextSortKey(db) = 2
    /\ Length(db) = 0
    /\ MappedIndices(DefaultPrefix, db) = {}

=========================================================================
